---- MODULE Spec2Model ----
\* Transfer-match engine of suhadamaaru-backend: the eligibility filter, the
\* pairwise and three-way scorers, the allocator, the match factory with its
\* compensating delete, the expiration sweep and the accept/reject handlers,
\* over a store of transfer_requests, transfer_matches and
\* transfer_match_participants rows.
EXTENDS Integers, Sequences, FiniteSets, TLC

\* ------------------------------------------------------------------ bounds
MaxTime == 8           \* days the clock may advance to
MaxRuns == 2           \* invocations of runMatchingAlgorithm per behaviour
MaxResponses == 2      \* accept/reject calls per behaviour
MaxFaults == 2         \* failing persistence calls per behaviour
MaxSweeps == 2         \* calls of expireOldMatches by the hourly job or the admin
MaxSubjects == 31      \* subjects of a request handed to the scorers
MaxRank == 17          \* length of a preference list handed to the scorers

\* ------------------------------------------------------- program constants
MatchTTLDays == 7
TwoWayThreshold == 50
ThreeWayThreshold == 40
DefaultRank == 5
RequestTTLDays == 90

Runners == {"cron", "admin"}
Outcomes == {"ok", "error", "throw"}
NoMatch == 0

\* --------------------------------------------------------------- helpers
Min(a, b) == IF a < b THEN a ELSE b
Max(a, b) == IF a > b THEN a ELSE b

\* Math.floor of the non-negative rational num/den
RoundDown(num, den) == num \div den

\* Math.round of the non-negative rational num/den
Round(num, den) == (2 * num + den) \div (2 * den)

Range(s) == {s[x] : x \in DOMAIN s}

\* Array.prototype.includes
Includes(s, e) == \E x \in DOMAIN s : s[x] = e

\* --------------------------------------------------------- request fixtures
Pref(school, rank) == [preferred_school_id |-> school, preference_rank |-> rank]

Req(user, school, prefs, subj, cat, med, flex, urg, dist, prov) ==
    [user_id |-> user, current_school_id |-> school, preferred_schools |-> prefs,
     subjects |-> subj, appointment_category_id |-> cat,
     medium_of_instruction |-> med, geographic_flexibility |-> flex,
     urgency_level |-> urg, district |-> dist, province |-> prov,
     status |-> "submitted", expires_at |-> 30]

\* two requests preferring each other's school, same district
PoolPair ==
    << Req("u1", 1, <<Pref(2, 1)>>, <<1>>, 1, "si", "district_only", "normal", 1, 1),
       Req("u2", 2, <<Pref(1, 1)>>, <<1>>, 1, "si", "district_only", "normal", 1, 1) >>

\* a rotation 1 -> 2 -> 3 -> 1 with a fourth request sharing school 3
PoolCycle ==
    << Req("u1", 1, <<Pref(2, 1)>>, <<1, 2>>, 1, "si", "province_wide", "normal", 1, 1),
       Req("u2", 2, <<Pref(3, 1)>>, <<1>>, 1, "si", "province_wide", "normal", 2, 1),
       Req("u3", 3, <<Pref(1, 1)>>, <<1, 2>>, 1, "si", "nationwide", "high", 3, 2),
       Req("u4", 3, <<Pref(1, 2)>>, <<1>>, 1, "si", "nationwide", "normal", 3, 2) >>

\* request 1 has two possible partners; request 4 belongs to the owner of 1
PoolChoice ==
    << Req("u1", 1, <<Pref(2, 1), Pref(3, 2)>>, <<1>>, 1, "si", "district_only", "normal", 1, 1),
       Req("u2", 2, <<Pref(1, 1)>>, <<1, 2>>, 1, "si", "district_only", "high", 1, 1),
       Req("u3", 3, <<Pref(1, 1)>>, <<1>>, 1, "si", "district_only", "normal", 1, 1),
       Req("u1", 2, <<Pref(3, 1)>>, <<1>>, 1, "si", "district_only", "normal", 1, 1) >>

\* gates: request 2 differs in medium, request 3 shares no subject with 1
PoolGates ==
    << Req("u1", 1, <<Pref(2, 1), Pref(3, 1)>>, <<1>>, 1, "si", "nationwide", "normal", 1, 1),
       Req("u2", 2, <<Pref(1, 1)>>, <<1>>, 1, "ta", "nationwide", "normal", 1, 1),
       Req("u3", 3, <<Pref(1, 1)>>, <<2>>, 1, "si", "nationwide", "normal", 0, 0) >>

\* a rotation 1 -> 2 -> 3 -> 1 of three requests
PoolTriple ==
    << Req("u1", 1, <<Pref(2, 1)>>, <<1>>, 1, "si", "district_only", "normal", 1, 1),
       Req("u2", 2, <<Pref(3, 1)>>, <<1>>, 1, "si", "district_only", "normal", 1, 1),
       Req("u3", 3, <<Pref(1, 1)>>, <<1>>, 1, "si", "district_only", "normal", 1, 1) >>

\* the pair again, with a third request that expires on day 4 and a draft
PoolStale ==
    << Req("u1", 1, <<Pref(2, 1)>>, <<1>>, 1, "si", "district_only", "normal", 1, 1),
       Req("u2", 2, <<Pref(1, 1)>>, <<1>>, 1, "si", "district_only", "normal", 1, 1),
       [Req("u3", 2, <<Pref(1, 2)>>, <<1>>, 1, "si", "district_only", "normal", 1, 1)
           EXCEPT !.expires_at = 4],
       [Req("u4", 2, <<Pref(1, 1)>>, <<1>>, 1, "si", "district_only", "normal", 1, 1)
           EXCEPT !.status = "draft"] >>

\* user u1 owns requests 1 and 2, which prefer each other's school; the
\* rotation 1 -> 2 -> 4 -> 1 holds both of them, the rotation 1 -> 3 -> 4 -> 1
\* has three owners
PoolOwner ==
    << Req("u1", 1, <<Pref(2, 1)>>, <<1>>, 1, "si", "district_only", "normal", 1, 1),
       Req("u1", 2, <<Pref(1, 1), Pref(3, 2)>>, <<1>>, 1, "si", "district_only", "normal", 1, 1),
       Req("u2", 2, <<Pref(1, 1), Pref(3, 2)>>, <<1>>, 1, "si", "district_only", "normal", 1, 1),
       Req("u3", 3, <<Pref(1, 1)>>, <<1>>, 1, "si", "district_only", "normal", 1, 1) >>

\* the rotation 1 -> 2 -> 3 -> 1 has no subject common to 3 and 1; the
\* rotation 1 -> 2 -> 4 -> 1 has one for every pair
PoolSubjects ==
    << Req("u1", 1, <<Pref(2, 1)>>, <<1>>, 1, "si", "district_only", "normal", 1, 1),
       Req("u2", 2, <<Pref(3, 1)>>, <<1, 2>>, 1, "si", "district_only", "normal", 1, 1),
       Req("u3", 3, <<Pref(1, 1)>>, <<2>>, 1, "si", "district_only", "normal", 1, 1),
       Req("u4", 3, <<Pref(1, 1)>>, <<1, 2>>, 1, "si", "district_only", "normal", 1, 1) >>

\* a pair 1, 2 ahead of a rotation 3 -> 4 -> 5 -> 3, and a request 6 that
\* request 1 could also be paired with
PoolMixed ==
    << Req("u1", 1, <<Pref(2, 1), Pref(6, 2)>>, <<1>>, 1, "si", "district_only", "normal", 1, 1),
       Req("u2", 2, <<Pref(1, 1)>>, <<1>>, 1, "si", "district_only", "normal", 1, 1),
       Req("u3", 3, <<Pref(4, 1)>>, <<1>>, 1, "si", "district_only", "normal", 1, 1),
       Req("u4", 4, <<Pref(5, 1)>>, <<1>>, 1, "si", "district_only", "normal", 1, 1),
       Req("u1", 5, <<Pref(3, 1)>>, <<1>>, 1, "si", "district_only", "normal", 1, 1),
       Req("u4", 6, <<Pref(1, 1)>>, <<1>>, 1, "si", "district_only", "normal", 1, 1) >>

\* the rotation 1 -> 3 -> 2 -> 1: against the order of the pool
PoolReverse ==
    << Req("u1", 1, <<Pref(3, 1)>>, <<1>>, 1, "si", "district_only", "normal", 1, 1),
       Req("u2", 2, <<Pref(1, 1)>>, <<1>>, 1, "si", "district_only", "normal", 1, 1),
       Req("u3", 3, <<Pref(2, 1)>>, <<1>>, 1, "si", "district_only", "normal", 1, 1) >>

Pools == {PoolPair, PoolTriple, PoolCycle, PoolChoice, PoolGates, PoolStale,
          PoolOwner, PoolSubjects}

Users == {"u1", "u2", "u3", "u4"}

\* ------------------------------------------------- inputs of the scorers
\* transfer-requests.service.ts lines 55-59: a list of n preferences, ranked by
\* position, with the given school last; no list when n = 0
PrefList(n, school) ==
    [x \in 1..n |-> Pref(IF x = n THEN school ELSE 100 + x, x)]

\* subjects 1..n
SubjectSeq(n) == [x \in 1..n |-> x]

\* n subjects of which the first c are among 1..c
OverlapSeq(n, c) == [x \in 1..n |-> IF x <= c THEN x ELSE 1000 + x]

\* district and province of a school; 0 where the chain is missing
Locations == {<<0, 0>>, <<1, 1>>, <<2, 1>>, <<3, 2>>}
Flexibilities == {"district_only", "province_wide", "nationwide"}
Urgencies == {"normal", "high"}

\* mutual first preferences, one district, subject lists of every size
SubjectPairs ==
    {<< Req("u1", 1, PrefList(1, 2), SubjectSeq(t[1]), 1, "si", "district_only", t[4], 1, 1),
        Req("u2", 2, PrefList(1, 1), OverlapSeq(t[2], t[3]), 1, "si", "district_only", t[4], 1, 1) >> :
        t \in {u \in (1..MaxSubjects) \X (1..MaxSubjects) \X (1..MaxSubjects) \X Urgencies :
                  u[3] <= Min(u[1], u[2])}}

\* each school at every rank of the other's list, or absent from it
RankPairs ==
    {<< Req("u1", 1, PrefList(t[1], 2), <<1>>, 1, "si", "district_only", "normal", 1, 1),
        Req("u2", 2, PrefList(t[2], 1), <<1>>, 1, "si", "district_only", "normal", 1, 1) >> :
        t \in (0..MaxRank) \X (0..MaxRank)}

\* every combination of locations, flexibilities and urgencies
GeoPairs ==
    {<< Req("u1", 1, PrefList(1, 2), <<1>>, 1, "si", t[3], t[5], t[1][1], t[1][2]),
        Req("u2", 2, PrefList(1, 1), <<1>>, 1, "si", t[4], t[6], t[2][1], t[2][2]) >> :
        t \in Locations \X Locations \X Flexibilities \X Flexibilities
                \X Urgencies \X Urgencies}

ScorePairs == SubjectPairs \cup RankPairs \cup GeoPairs

\* ------------------------------------------------------------ pure scoring
\* find(ps => ps.preferred_school_id === school)?.preference_rank || 5
RankOf(req, school) ==
    IF \E x \in DOMAIN req.preferred_schools :
           req.preferred_schools[x].preferred_school_id = school
    THEN LET first == CHOOSE x \in DOMAIN req.preferred_schools :
                 /\ req.preferred_schools[x].preferred_school_id = school
                 /\ \A y \in 1..(x - 1) :
                        req.preferred_schools[y].preferred_school_id # school
             rank == req.preferred_schools[first].preference_rank
         IN IF rank = 0 THEN DefaultRank ELSE rank
    ELSE DefaultRank

\* preferred_schools.some(ps => ps.preferred_school_id === school)
Wants(req, school) ==
    \E x \in DOMAIN req.preferred_schools :
        req.preferred_schools[x].preferred_school_id = school

\* a.subjects.filter(s => b.subjects.includes(s)).length
CommonCount(a, b) == Len(SelectSeq(a.subjects, LAMBDA s : Includes(b.subjects, s)))

hasCommonSubjects(request1, request2) ==
    IF Len(request1.subjects) = 0 \/ Len(request2.subjects) = 0
    THEN FALSE
    ELSE \E x \in DOMAIN request1.subjects : Includes(request2.subjects, request1.subjects[x])

getGeoFeasibilityScore(from, to) ==
    IF from.district = 0 \/ to.district = 0 THEN 0
    ELSE IF from.district = to.district THEN 20
    ELSE IF from.province = to.province
            /\ from.geographic_flexibility \in {"province_wide", "nationwide"} THEN 15
    ELSE IF from.geographic_flexibility = "nationwide" THEN 10
    ELSE 0

calculateGeographicCompatibility(request1, request2) ==
    IF request1.district = 0 \/ request2.district = 0 THEN 0
    ELSE IF request1.district = request2.district THEN 20
    ELSE IF request1.province = request2.province
         THEN IF /\ request1.geographic_flexibility \in {"province_wide", "nationwide"}
                 /\ request2.geographic_flexibility \in {"province_wide", "nationwide"}
              THEN 15 ELSE 5
    ELSE IF /\ request1.geographic_flexibility = "nationwide"
            /\ request2.geographic_flexibility = "nationwide" THEN 10
    ELSE 0

\* a scorer that credits a preference held in one direction only
calculateCompatibilityOneSided(request1, request2) ==
    LET mutual == \/ Wants(request2, request1.current_school_id)
                  \/ Wants(request1, request2.current_school_id)
        r1Rank == RankOf(request2, request1.current_school_id)
        r2Rank == RankOf(request1, request2.current_school_id)
        rankBonus == ((6 - r1Rank) + (6 - r2Rank)) * 2
        mutualSchools == IF mutual THEN Min(40 + rankBonus, 60) ELSE 0
        geo == calculateGeographicCompatibility(request1, request2)
        subjects == IF Len(request1.subjects) > 0 /\ Len(request2.subjects) > 0
                    THEN Round(15 * CommonCount(request1, request2),
                               Max(Len(request1.subjects), Len(request2.subjects)))
                    ELSE 0
        urgency == IF request1.urgency_level = request2.urgency_level THEN 5
                   ELSE IF request1.urgency_level = "high"
                           \/ request2.urgency_level = "high" THEN 2
                   ELSE 0
    IN [total |-> Min(mutualSchools + geo + subjects + urgency, 100),
        mutualSchools |-> mutualSchools, geographicCompatibility |-> geo,
        subjects |-> subjects, urgency |-> urgency]

\* lines 403-484
calculateCompatibility(request1, request2) ==
    LET mutual == /\ Wants(request2, request1.current_school_id)
                  /\ Wants(request1, request2.current_school_id)
        r1Rank == RankOf(request2, request1.current_school_id)
        r2Rank == RankOf(request1, request2.current_school_id)
        rankBonus == ((6 - r1Rank) + (6 - r2Rank)) * 2
        mutualSchools == IF mutual THEN Min(40 + rankBonus, 60) ELSE 0
        geo == calculateGeographicCompatibility(request1, request2)
        subjects == IF Len(request1.subjects) > 0 /\ Len(request2.subjects) > 0
                    THEN Round(15 * CommonCount(request1, request2),
                               Max(Len(request1.subjects), Len(request2.subjects)))
                    ELSE 0
        urgency == IF request1.urgency_level = request2.urgency_level THEN 5
                   ELSE IF request1.urgency_level = "high"
                           \/ request2.urgency_level = "high" THEN 2
                   ELSE 0
    IN [total |-> Min(mutualSchools + geo + subjects + urgency, 100),
        mutualSchools |-> mutualSchools, geographicCompatibility |-> geo,
        subjects |-> subjects, urgency |-> urgency]

calculateThreeWayCompatibility(reqA, reqB, reqC) ==
    LET preferenceScore == (6 - RankOf(reqA, reqB.current_school_id)) * 2
                           + (6 - RankOf(reqB, reqC.current_school_id)) * 2
                           + (6 - RankOf(reqC, reqA.current_school_id)) * 2
        overlap == CommonCount(reqA, reqB) + CommonCount(reqB, reqC)
                   + CommonCount(reqC, reqA)
        geo == getGeoFeasibilityScore(reqA, reqB) + getGeoFeasibilityScore(reqB, reqC)
               + getGeoFeasibilityScore(reqC, reqA)
        allHigh == /\ reqA.urgency_level = "high" /\ reqB.urgency_level = "high"
                   /\ reqC.urgency_level = "high"
        allNormal == /\ reqA.urgency_level = "normal" /\ reqB.urgency_level = "normal"
                     /\ reqC.urgency_level = "normal"
        urgency == IF allHigh \/ allNormal THEN 10 ELSE 5
    IN Min(Min(preferenceScore, 40) + Min(Round(10 * overlap, 3), 30)
           + Round(geo, 3) + urgency, 100)

\* ------------------------------------------------------------------ state
VARIABLES
    transfer_requests,            \* table: request id (index) -> row
    transfer_matches,             \* table: match id -> row
    transfer_match_participants,  \* table: set of participant rows
    nextMatchId,                  \* id the store gives to the next match row
    now,                          \* the clock, in days
    run,                          \* per trigger: the invocation of runMatchingAlgorithm
    handler,                      \* per slot: an accept/reject request being served
    call,                         \* how the last accept/reject call returned
    budget,                       \* runs, responses, faults, sweeps and ticks still allowed
    mode,                         \* "serial": one handler at a time; "concurrent"
    scored                        \* what the scorers returned for requests 1 and 2

vars == <<transfer_requests, transfer_matches, transfer_match_participants,
          nextMatchId, now, run, handler, call, budget, mode, scored>>

store == <<transfer_requests, transfer_matches, transfer_match_participants>>

MatchIds == DOMAIN transfer_matches
RequestIds == DOMAIN transfer_requests

ParticipantsOf(m) == {p \in transfer_match_participants : p.match_id = m}

IdleRun ==
    [pc |-> "idle", eligibleRequests |-> <<>>, requests |-> <<>>,
     preferences |-> "none", requestSubjects |-> "none",   \* "data" or "null"
     existingParticipants |-> "none",
     processedRequestIds |-> {}, matchesCreated |-> 0,
     phase |-> 0, i |-> 0, j |-> 0, k |-> 0, match |-> NoMatch,
     inserted |-> {},     \* match rows this run inserted
     groups |-> {},       \* groups the factory returned a match id for
     result |-> [matchesCreated |-> 0, requestsProcessed |-> 0]]

Slots == {1, 2}

IdleHandler ==
    [pc |-> "idle", op |-> "none", matchId |-> NoMatch, userId |-> "u1",
     requestIds |-> {},
     statusBefore |-> "none"]    \* the match's status when the request arrived

NoCall ==
    [op |-> "none", matchId |-> NoMatch, userId |-> "u1", result |-> "none",
     expiredCount |-> 0, at |-> 0]    \* of expireOldMatches: its count, its time

NoScore ==
    [pair |-> FALSE, geo |-> FALSE,
     compatibility |-> [total |-> 0, mutualSchools |-> 0, geographicCompatibility |-> 0,
                        subjects |-> 0, urgency |-> 0],
     feasibility |-> 0]

InitStore(pools, allowed) ==
    /\ transfer_requests \in pools
    /\ transfer_matches = << >>
    /\ transfer_match_participants = {}
    /\ nextMatchId = 1
    /\ now = 0
    /\ run = [p \in Runners |-> IdleRun]
    /\ handler = [s \in Slots |-> IdleHandler]
    /\ call = NoCall
    /\ budget = allowed
    /\ scored = NoScore

Init ==
    /\ InitStore(Pools, [runs |-> MaxRuns, responses |-> MaxResponses, faults |-> 1,
                         sweeps |-> 1, ticks |-> MaxTime])
    /\ mode = "serial"

\* a persistence call may succeed, return an error object, or throw
Fault(o) == IF o = "ok" THEN 0 ELSE 1
MayFail(o) == o = "ok" \/ budget.faults > 0

Quiet(p) == run[p].pc = "idle"
AllQuiet == (\A p \in Runners : Quiet(p)) /\ (\A s \in Slots : handler[s].pc = "idle")

\* serial mode: every trigger and request runs to completion before the next
RunMayStep(p) ==
    mode = "serial" =>
        /\ \A q \in Runners \ {p} : Quiet(q)
        /\ \A s \in Slots : handler[s].pc = "idle"
HandlerMayStep(s) ==
    mode = "serial" =>
        /\ \A q \in Runners : Quiet(q)
        /\ \A t \in Slots \ {s} : handler[t].pc = "idle"

\* ------------------------------------------------------------- allocator
\* lines 219-276: the enriched request at index x of a run's pool; a query
\* that returned no data leaves every request without preferences or subjects
At(r, x) ==
    [transfer_requests[r.eligibleRequests[x]] EXCEPT
        !.status = "submitted",
        !.preferred_schools = IF r.preferences = "data" THEN @ ELSE << >>,
        !.subjects = IF r.requestSubjects = "data" THEN @ ELSE << >>]

\* a three-way test that does not compare the subjects of C and A
IsCycleCandidateOpen(reqA, reqB, reqC) ==
    /\ ~(\/ reqA.user_id = reqB.user_id
         \/ reqB.user_id = reqC.user_id
         \/ reqA.user_id = reqC.user_id)
    /\ Wants(reqA, reqB.current_school_id)
    /\ Wants(reqB, reqC.current_school_id)
    /\ Wants(reqC, reqA.current_school_id)
    /\ reqA.appointment_category_id = reqB.appointment_category_id
    /\ reqB.appointment_category_id = reqC.appointment_category_id
    /\ reqA.medium_of_instruction = reqB.medium_of_instruction
    /\ reqB.medium_of_instruction = reqC.medium_of_instruction
    /\ hasCommonSubjects(reqA, reqB)
    /\ hasCommonSubjects(reqB, reqC)
    /\ calculateThreeWayCompatibility(reqA, reqB, reqC) >= ThreeWayThreshold

\* gates and threshold of the three-way search, lines 556-613
IsCycleCandidate(reqA, reqB, reqC) ==
    /\ ~(\/ reqA.user_id = reqB.user_id
         \/ reqB.user_id = reqC.user_id
         \/ reqA.user_id = reqC.user_id)
    /\ Wants(reqA, reqB.current_school_id)
    /\ Wants(reqB, reqC.current_school_id)
    /\ Wants(reqC, reqA.current_school_id)
    /\ reqA.appointment_category_id = reqB.appointment_category_id
    /\ reqB.appointment_category_id = reqC.appointment_category_id
    /\ reqA.medium_of_instruction = reqB.medium_of_instruction
    /\ reqB.medium_of_instruction = reqC.medium_of_instruction
    /\ hasCommonSubjects(reqA, reqB)
    /\ hasCommonSubjects(reqB, reqC)
    /\ hasCommonSubjects(reqC, reqA)
    /\ calculateThreeWayCompatibility(reqA, reqB, reqC) >= ThreeWayThreshold

\* a validation that compares the categories only
CategoryValidation(request1, request2) ==
    request1.appointment_category_id = request2.appointment_category_id

\* the validation at the head of createTwoWayMatch, lines 727-749
TwoWayValidation(request1, request2) ==
    /\ request1.appointment_category_id = request2.appointment_category_id
    /\ request1.medium_of_instruction = request2.medium_of_instruction
    /\ hasCommonSubjects(request1, request2)

\* a pair test that does not compare the owners
IsPairCandidateAnyOwner(request1, request2) ==
    /\ calculateCompatibility(request1, request2).total >= TwoWayThreshold
    /\ TwoWayValidation(request1, request2)

\* the pair test of the two-way scan, lines 104-110, up to the first store call
IsPairCandidate(request1, request2) ==
    /\ request1.user_id # request2.user_id
    /\ calculateCompatibility(request1, request2).total >= TwoWayThreshold
    /\ TwoWayValidation(request1, request2)

\* The three nested loops of findThreeWayMatches, resumed at (i, j, k): each
\* index is tested against processedRequestIds only where its own loop
\* advances.  The result is the next triple handed to createThreeWayMatch,
\* or << >> when the loops end.
RECURSIVE Scan3I(_, _, _)
RECURSIVE Scan3J(_, _, _, _)
RECURSIVE Scan3K(_, _, _, _, _)
Scan3K(r, done, i, j, k) ==
    IF k > Len(r.eligibleRequests) THEN Scan3J(r, done, i, j + 1)
    ELSE IF r.eligibleRequests[k] \in done THEN Scan3K(r, done, i, j, k + 1)
    ELSE IF IsCycleCandidate(At(r, i), At(r, j), At(r, k)) THEN <<i, j, k>>
    ELSE Scan3K(r, done, i, j, k + 1)
Scan3J(r, done, i, j) ==
    IF j > Len(r.eligibleRequests) THEN Scan3I(r, done, i + 1)
    ELSE IF r.eligibleRequests[j] \in done THEN Scan3J(r, done, i, j + 1)
    ELSE Scan3K(r, done, i, j, j + 1)
Scan3I(r, done, i) ==
    IF i > Len(r.eligibleRequests) THEN << >>
    ELSE IF r.eligibleRequests[i] \in done THEN Scan3I(r, done, i + 1)
    ELSE Scan3J(r, done, i, i + 1)

\* The two nested loops of the pairwise scan, lines 95-129.
RECURSIVE Scan2I(_, _, _)
RECURSIVE Scan2J(_, _, _, _)
Scan2J(r, done, i, j) ==
    IF j > Len(r.eligibleRequests) THEN Scan2I(r, done, i + 1)
    ELSE IF r.eligibleRequests[j] \in done THEN Scan2J(r, done, i, j + 1)
    ELSE IF IsPairCandidate(At(r, i), At(r, j)) THEN <<i, j>>
    ELSE Scan2J(r, done, i, j + 1)
Scan2I(r, done, i) ==
    IF i > Len(r.eligibleRequests) THEN << >>
    ELSE IF r.eligibleRequests[i] \in done THEN Scan2I(r, done, i + 1)
    ELSE Scan2J(r, done, i, i + 1)

\* lines 131-138: the summary; the daily trigger goes on to expireOldMatches
Finish(p, r) ==
    [r EXCEPT !.pc = IF p = "cron" THEN "expire" ELSE "done",
              !.phase = 0,
              !.result = [matchesCreated |-> r.matchesCreated,
                          requestsProcessed |-> Cardinality(r.processedRequestIds)]]

AfterScan2(p, r, t) ==
    IF t = << >> THEN Finish(p, r)
    ELSE [r EXCEPT !.pc = "insertMatch", !.phase = 2, !.i = t[1], !.j = t[2], !.k = 0]

AfterScan3(p, r, t) ==
    IF t = << >>
    THEN AfterScan2(p, r, Scan2I(r, r.processedRequestIds, 1))
    ELSE [r EXCEPT !.pc = "insertMatch", !.phase = 3, !.i = t[1], !.j = t[2], !.k = t[3]]

\* lines 77-92: what the run does once the pool is loaded
Allocate(p, r) ==
    IF Len(r.eligibleRequests) < 2
    THEN [r EXCEPT !.pc = IF p = "cron" THEN "expire" ELSE "done"]
    ELSE IF Len(r.eligibleRequests) >= 3
    THEN AfterScan3(p, r, Scan3I(r, r.processedRequestIds, 1))
    ELSE AfterScan2(p, r, Scan2I(r, r.processedRequestIds, 1))

\* the request ids of the group a run is creating a match for
Group(r) ==
    IF r.phase = 3
    THEN <<r.eligibleRequests[r.i], r.eligibleRequests[r.j], r.eligibleRequests[r.k]>>
    ELSE <<r.eligibleRequests[r.i], r.eligibleRequests[r.j]>>

\* a caller that gives the run up when the factory returns null
CreateReturnedOrAbort(p, r, matchId) ==
    LET r1 == [r EXCEPT
                 !.matchesCreated = @ + 1,
                 !.processedRequestIds = @ \cup Range(Group(r)),
                 !.groups = @ \cup {Group(r)},
                 !.match = NoMatch]
    IN IF matchId = NoMatch
       THEN [r EXCEPT !.pc = "failed", !.match = NoMatch]
       ELSE IF r.phase = 3
       THEN AfterScan3(p, r1, Scan3K(r1, r1.processedRequestIds, r.i, r.j, r.k + 1))
       ELSE AfterScan2(p, r1, Scan2I(r1, r1.processedRequestIds, r.i + 1))

\* a pairwise scan that stays at the same outer index after a match
CreateReturnedNoBreak(p, r, matchId) ==
    LET ok == matchId # NoMatch
        r1 == [r EXCEPT
                 !.matchesCreated = IF ok THEN @ + 1 ELSE @,
                 !.processedRequestIds = IF ok THEN @ \cup Range(Group(r)) ELSE @,
                 !.groups = IF ok THEN @ \cup {Group(r)} ELSE @,
                 !.match = NoMatch]
    IN IF r.phase = 3
       THEN AfterScan3(p, r1, Scan3K(r1, r1.processedRequestIds, r.i, r.j, r.k + 1))
       ELSE AfterScan2(p, r1, Scan2J(r1, r1.processedRequestIds, r.i, r.j + 1))

\* lines 118-126 and 620-628: the caller's reaction to the factory's result
CreateReturned(p, r, matchId) ==
    LET ok == matchId # NoMatch
        r1 == [r EXCEPT
                 !.matchesCreated = IF ok THEN @ + 1 ELSE @,
                 !.processedRequestIds = IF ok THEN @ \cup Range(Group(r)) ELSE @,
                 !.groups = IF ok THEN @ \cup {Group(r)} ELSE @,
                 !.match = NoMatch]
    IN IF r.phase = 3
       THEN AfterScan3(p, r1, Scan3K(r1, r1.processedRequestIds, r.i, r.j, r.k + 1))
       ELSE IF ok
       THEN AfterScan2(p, r1, Scan2I(r1, r1.processedRequestIds, r.i + 1))
       ELSE AfterScan2(p, r1, Scan2J(r1, r1.processedRequestIds, r.i, r.j + 1))

\* ------------------------------------------------- runMatchingAlgorithm
\* a trigger fires: the daily cron job or the admin endpoint
StartRun(p) ==
    /\ Quiet(p)
    /\ RunMayStep(p)
    /\ budget.runs > 0
    /\ run' = [run EXCEPT ![p] = [IdleRun EXCEPT !.pc = "requests"]]
    /\ budget' = [budget EXCEPT !.runs = @ - 1]
    /\ UNCHANGED <<store, nextMatchId, now, handler, call, mode, scored>>

IdSeq == [x \in 1..Len(transfer_requests) |-> x]

\* lines 150-182: the query for submitted, unexpired requests
SubmittedUnexpired ==
    SelectSeq(IdSeq, LAMBDA id : /\ transfer_requests[id].status = "submitted"
                                 /\ transfer_requests[id].expires_at > now)

QueryRequests(p) ==
    /\ run[p].pc = "requests"
    /\ RunMayStep(p)
    /\ \E o \in Outcomes :
        /\ MayFail(o)
        /\ budget' = [budget EXCEPT !.faults = @ - Fault(o)]
        /\ run' = [run EXCEPT ![p] =
             IF o # "ok" THEN [@ EXCEPT !.pc = "failed"]
             ELSE IF SubmittedUnexpired = << >> THEN Allocate(p, @)
             ELSE [@ EXCEPT !.pc = "preferences", !.requests = SubmittedUnexpired]]
    /\ UNCHANGED <<store, nextMatchId, now, handler, call, mode, scored>>

\* a filter that drops every request with a participant row, whatever the
\* status of the match
requestsInAnyMatch(ids) ==
    {row.transfer_request_id : row \in
        {q \in transfer_match_participants : q.transfer_request_id \in Range(ids)}}

\* a filter that also drops the requests of rejected matches
requestsInUnexpiredMatches(ids) ==
    {row.transfer_request_id : row \in
        {q \in transfer_match_participants :
            /\ q.transfer_request_id \in Range(ids)
            /\ q.match_id \in MatchIds
            /\ transfer_matches[q.match_id].status \in {"pending", "accepted", "rejected"}}}

\* lines 208-215: requests with a participant row in a pending or accepted match
requestsInActiveMatches(ids) ==
    {row.transfer_request_id : row \in
        {q \in transfer_match_participants :
            /\ q.transfer_request_id \in Range(ids)
            /\ q.match_id \in MatchIds
            /\ transfer_matches[q.match_id].status \in {"pending", "accepted"}}}

\* what a query whose error is not looked at leaves in its data
DataOf(o) == IF o = "ok" THEN "data" ELSE "null"

\* lines 185-189: the preferences of the requests; the error is not looked at
QueryPreferences(p) ==
    /\ run[p].pc = "preferences"
    /\ RunMayStep(p)
    /\ \E o \in Outcomes :
        /\ MayFail(o)
        /\ budget' = [budget EXCEPT !.faults = @ - Fault(o)]
        /\ run' = [run EXCEPT ![p] =
             IF o = "throw" THEN [@ EXCEPT !.pc = "failed"]
             ELSE [@ EXCEPT !.pc = "subjects", !.preferences = DataOf(o)]]
    /\ UNCHANGED <<store, nextMatchId, now, handler, call, mode, scored>>

\* lines 191-195: the subjects of the requests; the error is not looked at
QuerySubjects(p) ==
    /\ run[p].pc = "subjects"
    /\ RunMayStep(p)
    /\ \E o \in Outcomes :
        /\ MayFail(o)
        /\ budget' = [budget EXCEPT !.faults = @ - Fault(o)]
        /\ run' = [run EXCEPT ![p] =
             IF o = "throw" THEN [@ EXCEPT !.pc = "failed"]
             ELSE [@ EXCEPT !.pc = "participants", !.requestSubjects = DataOf(o)]]
    /\ UNCHANGED <<store, nextMatchId, now, handler, call, mode, scored>>

\* lines 197-219 and 77-92: the existing-participants query, whose error is
\* not looked at, the pool filter, and the scan up to the first store call
QueryParticipants(p) ==
    /\ run[p].pc = "participants"
    /\ RunMayStep(p)
    /\ \E o \in Outcomes :
        /\ MayFail(o)
        /\ budget' = [budget EXCEPT !.faults = @ - Fault(o)]
        /\ LET r == run[p]
               active == IF o = "ok" THEN requestsInActiveMatches(r.requests) ELSE {}
               pool == SelectSeq(r.requests, LAMBDA id : id \notin active)
           IN run' = [run EXCEPT ![p] =
                IF o = "throw" THEN [r EXCEPT !.pc = "failed"]
                ELSE Allocate(p, [r EXCEPT !.eligibleRequests = pool,
                                           !.requests = << >>,
                                           !.existingParticipants = DataOf(o)])]
    /\ UNCHANGED <<store, nextMatchId, now, handler, call, mode, scored>>

\* lines 649-664 and 755-770: insert of the match row
InsertMatch(p) ==
    /\ run[p].pc = "insertMatch"
    /\ RunMayStep(p)
    /\ \E o \in Outcomes :
        /\ MayFail(o)
        /\ budget' = [budget EXCEPT !.faults = @ - Fault(o)]
        /\ LET r == run[p]
               scoreOf == IF r.phase = 3
                          THEN calculateThreeWayCompatibility(
                                   At(r, r.i), At(r, r.j), At(r, r.k))
                          ELSE calculateCompatibility(
                                   At(r, r.i), At(r, r.j)).total
               row == [match_type |-> IF r.phase = 3 THEN "circular_three" ELSE "two_way",
                       compatibility_score |-> scoreOf,
                       status |-> "pending",
                       expires_at |-> now + MatchTTLDays]
           IN IF o = "ok"
              THEN /\ transfer_matches' = transfer_matches @@ (nextMatchId :> row)
                   /\ nextMatchId' = nextMatchId + 1
                   /\ run' = [run EXCEPT ![p] =
                        [r EXCEPT !.pc = "insertParticipants", !.match = nextMatchId,
                                  !.inserted = @ \cup {nextMatchId}]]
              ELSE /\ UNCHANGED <<transfer_matches, nextMatchId>>
                   /\ run' = [run EXCEPT ![p] = CreateReturned(p, r, NoMatch)]
    /\ UNCHANGED <<transfer_requests, transfer_match_participants,
                   now, handler, call, mode, scored>>

\* lines 667-673 and 773-788: the participant rows of a group
ParticipantRows(r) ==
    {[match_id |-> r.match,
      transfer_request_id |-> Group(r)[x],
      user_id |-> transfer_requests[Group(r)[x]].user_id,
      swap_position |-> x,
      response_status |-> "pending"] : x \in DOMAIN Group(r)}

\* lines 675-689 and 790-802: insert of the participant rows
InsertParticipants(p) ==
    /\ run[p].pc = "insertParticipants"
    /\ RunMayStep(p)
    /\ \E o \in Outcomes :
        /\ MayFail(o)
        /\ budget' = [budget EXCEPT !.faults = @ - Fault(o)]
        /\ LET r == run[p]
           IN CASE o = "ok" ->
                     /\ transfer_match_participants' =
                            transfer_match_participants \cup ParticipantRows(r)
                     /\ run' = [run EXCEPT ![p] = [r EXCEPT !.pc = "selectUsers"]]
                [] o = "error" ->
                     /\ UNCHANGED transfer_match_participants
                     /\ run' = [run EXCEPT ![p] = [r EXCEPT !.pc = "deleteMatch"]]
                [] o = "throw" ->
                     /\ UNCHANGED transfer_match_participants
                     /\ run' = [run EXCEPT ![p] = CreateReturned(p, r, NoMatch)]
    /\ UNCHANGED <<transfer_requests, transfer_matches, nextMatchId,
                   now, handler, call, mode, scored>>

\* lines 684-688 and 797-801: the compensating delete, result not looked at
DeleteMatch(p) ==
    /\ run[p].pc = "deleteMatch"
    /\ RunMayStep(p)
    /\ \E o \in Outcomes :
        /\ MayFail(o)
        /\ budget' = [budget EXCEPT !.faults = @ - Fault(o)]
        /\ LET r == run[p]
           IN /\ transfer_matches' =
                    IF o = "ok"
                    THEN [m \in MatchIds \ {r.match} |-> transfer_matches[m]]
                    ELSE transfer_matches
              /\ run' = [run EXCEPT ![p] = CreateReturned(p, r, NoMatch)]
    /\ UNCHANGED <<transfer_requests, transfer_match_participants, nextMatchId, now, handler, call, mode, scored>>

\* lines 691-698 and 804-810: the user lookup for the notification
SelectUsers(p) ==
    /\ run[p].pc = "selectUsers"
    /\ RunMayStep(p)
    /\ \E o \in Outcomes :
        /\ MayFail(o)
        /\ budget' = [budget EXCEPT !.faults = @ - Fault(o)]
        /\ LET r == run[p]
           IN run' = [run EXCEPT ![p] =
                CASE o = "ok" -> [r EXCEPT !.pc = "notify"]
                  [] o = "error" -> CreateReturned(p, r, r.match)
                  [] o = "throw" -> CreateReturned(p, r, NoMatch)]
    /\ UNCHANGED <<store, nextMatchId, now, handler, call, mode, scored>>

\* notifications.service.ts lines 98-130: the bulk insert; every failure is
\* caught inside notifyMatchCreated
Notify(p) ==
    /\ run[p].pc = "notify"
    /\ RunMayStep(p)
    /\ \E o \in Outcomes :
        /\ MayFail(o)
        /\ budget' = [budget EXCEPT !.faults = @ - Fault(o)]
        /\ LET r == run[p]
           IN run' = [run EXCEPT ![p] = CreateReturned(p, r, r.match)]
    /\ UNCHANGED <<store, nextMatchId, now, handler, call, mode, scored>>

\* ------------------------------------------------------ expireOldMatches
\* an update that does not filter on the status
ExpireSweepAnyStatus(matches, t) ==
    [m \in DOMAIN matches |->
        IF matches[m].expires_at < t
        THEN [matches[m] EXCEPT !.status = "expired"]
        ELSE matches[m]]

\* lines 832-838: one update of every pending match past its expiry
ExpireSweep(matches, t) ==
    [m \in DOMAIN matches |->
        IF matches[m].status = "pending" /\ matches[m].expires_at < t
        THEN [matches[m] EXCEPT !.status = "expired"]
        ELSE matches[m]]

\* rows an update without the status filter would return
SweptRowsAnyStatus(matches, t) == {m \in DOMAIN matches : matches[m].expires_at < t}

\* lines 838 and 845: the rows the update returns through .select()
SweptRows(matches, t) ==
    {m \in DOMAIN matches : matches[m].status = "pending" /\ matches[m].expires_at < t}

\* part_000 lines 45-60 and part_001 lines 119-127: the hourly cron job or the
\* admin endpoint calls expireOldMatches and gets the count or the error
ExpireOldMatches ==
    /\ AllQuiet \/ mode = "concurrent"
    /\ budget.sweeps > 0
    /\ \E o \in Outcomes :
        /\ MayFail(o)
        /\ budget' = [budget EXCEPT !.faults = @ - Fault(o), !.sweeps = @ - 1]
        /\ transfer_matches' = IF o = "ok" THEN ExpireSweep(transfer_matches, now)
                               ELSE transfer_matches
        /\ call' = [NoCall EXCEPT
                       !.op = "expire",
                       !.result = IF o = "ok" THEN "ok" ELSE "error",
                       !.expiredCount = IF o = "ok"
                                        THEN Cardinality(SweptRows(transfer_matches, now))
                                        ELSE 0,
                       !.at = now]
    /\ UNCHANGED <<transfer_requests, transfer_match_participants, nextMatchId, now, run, handler, mode, scored>>

\* part_000 lines 30-36: the daily job sweeps after its run
ExpireAfterRun(p) ==
    /\ run[p].pc = "expire"
    /\ RunMayStep(p)
    /\ \E o \in Outcomes :
        /\ MayFail(o)
        /\ budget' = [budget EXCEPT !.faults = @ - Fault(o)]
        /\ transfer_matches' = IF o = "ok" THEN ExpireSweep(transfer_matches, now)
                               ELSE transfer_matches
    /\ run' = [run EXCEPT ![p] = IdleRun]
    /\ UNCHANGED <<transfer_requests, transfer_match_participants, nextMatchId, now, handler, call, mode, scored>>

\* part_001 lines 112-116 and part_000 lines 37-39: the trigger's handler ends,
\* with the summary or with the error of the run
RunReturns(p) ==
    /\ run[p].pc \in {"done", "failed"}
    /\ RunMayStep(p)
    /\ run' = [run EXCEPT ![p] = IdleRun]
    /\ UNCHANGED <<store, nextMatchId, now, handler, call, budget, mode, scored>>

\* time passes
Tick ==
    /\ AllQuiet \/ mode = "concurrent"
    /\ budget.ticks > 0
    /\ LET d == MatchTTLDays \div 2 + 1
       IN /\ now + d <= MaxTime
          /\ now' = now + d
    /\ budget' = [budget EXCEPT !.ticks = @ - 1]
    /\ UNCHANGED <<store, nextMatchId, run, handler, call, mode, scored>>

\* ------------------------------------------- acceptMatch and rejectMatch
\* part_001 lines 93-107: a user posts accept or reject for a match
Receive(s) ==
    /\ handler[s].pc = "idle"
    /\ \A t \in Slots : t < s => handler[t].pc # "idle"
    /\ HandlerMayStep(s)
    /\ budget.responses > 0
    /\ \E op \in {"accept", "reject"}, m \in MatchIds, u \in Users :
        handler' = [handler EXCEPT ![s] =
            [IdleHandler EXCEPT !.pc = "update", !.op = op, !.matchId = m,
                                !.userId = u,
                                !.statusBefore = transfer_matches[m].status]]
    /\ budget' = [budget EXCEPT !.responses = @ - 1]
    /\ UNCHANGED <<store, nextMatchId, now, run, call, mode, scored>>

Return(s, result) ==
    /\ handler' = [handler EXCEPT ![s] = IdleHandler]
    /\ call' = [NoCall EXCEPT !.op = handler[s].op, !.matchId = handler[s].matchId,
                              !.userId = handler[s].userId, !.result = result]

\* the rows an update filtered by match_id and user_id touches
RowsOf(m, u) == {q \in transfer_match_participants : q.match_id = m /\ q.user_id = u}

\* a lookup that lets an update of no row pass, as .maybeSingle() would
SingleRowOrNone(rows) == Cardinality(rows) <= 1

\* .single(): anything but exactly one row is an error
SingleRow(rows) == Cardinality(rows) = 1

SetResponse(m, u, status) ==
    {IF q.match_id = m /\ q.user_id = u THEN [q EXCEPT !.response_status = status] ELSE q :
        q \in transfer_match_participants}

\* an update that takes effect only when every participant gave that response
SetMatchStatusUnanimous(m, status) ==
    [x \in MatchIds |->
        IF x = m /\ \A q \in ParticipantsOf(m) : q.response_status = status
        THEN [transfer_matches[x] EXCEPT !.status = status]
        ELSE transfer_matches[x]]

\* update of transfer_matches filtered by id
SetMatchStatus(m, status) ==
    [x \in MatchIds |-> IF x = m THEN [transfer_matches[x] EXCEPT !.status = status]
                        ELSE transfer_matches[x]]

\* update of transfer_requests filtered by a list of ids
SetRequestStatus(ids, status) ==
    [x \in RequestIds |-> IF x \in ids THEN [transfer_requests[x] EXCEPT !.status = status]
                          ELSE transfer_requests[x]]

\* a test with some() in place of every()
SomeAccepted(rows) == \E q \in rows : q.response_status = "accepted"

\* allParticipants?.every(p => p.response_status === 'accepted')
AllAccepted(rows) == \A q \in rows : q.response_status = "accepted"

\* part_001 lines 312-323 and 363-374: record the response, fail unless one row
UpdateResponse(s) ==
    /\ handler[s].pc = "update"
    /\ HandlerMayStep(s)
    /\ LET h == handler[s]
           status == IF h.op = "accept" THEN "accepted" ELSE "rejected"
       IN IF SingleRow(RowsOf(h.matchId, h.userId))
          THEN /\ transfer_match_participants' = SetResponse(h.matchId, h.userId, status)
               /\ handler' = [handler EXCEPT ![s].pc =
                                 IF h.op = "accept" THEN "readAll" ELSE "readIds"]
               /\ UNCHANGED call
          ELSE /\ UNCHANGED transfer_match_participants
               /\ Return(s, "error")
    /\ UNCHANGED <<transfer_requests, transfer_matches, nextMatchId,
                   now, run, budget, mode, scored>>

\* part_001 lines 326-335: have all participants accepted?
AcceptReadAll(s) ==
    /\ handler[s].pc = "readAll"
    /\ HandlerMayStep(s)
    /\ IF AllAccepted(ParticipantsOf(handler[s].matchId))
       THEN handler' = [handler EXCEPT ![s].pc = "setMatch"]
            /\ UNCHANGED call
       ELSE Return(s, "ok")
    /\ UNCHANGED <<store, nextMatchId, now, run, budget, mode, scored>>

\* part_001 lines 337-340 and 385-388: the match takes the response's status
SetMatch(s) ==
    /\ handler[s].pc = "setMatch"
    /\ HandlerMayStep(s)
    /\ LET h == handler[s]
       IN /\ transfer_matches' =
                SetMatchStatus(h.matchId, IF h.op = "accept" THEN "accepted" ELSE "rejected")
          /\ IF h.op = "accept" \/ h.requestIds # {}
             THEN handler' = [handler EXCEPT ![s].pc =
                                 IF h.op = "accept" THEN "readIds" ELSE "setRequests"]
                  /\ UNCHANGED call
             ELSE Return(s, "ok")
    /\ UNCHANGED <<transfer_requests, transfer_match_participants, nextMatchId, now, run, budget, mode, scored>>

\* participants?.map(p => p.transfer_request_id) || []
MatchRequestIds(rows) == {q.transfer_request_id : q \in rows}

\* part_001 lines 343-351 and 377-382: the request ids of the match
ReadIds(s) ==
    /\ handler[s].pc = "readIds"
    /\ HandlerMayStep(s)
    /\ LET h == handler[s]
           ids == MatchRequestIds(ParticipantsOf(h.matchId))
       IN IF h.op = "reject" \/ ids # {}
          THEN handler' = [handler EXCEPT ![s].requestIds = ids, ![s].pc =
                              IF h.op = "accept" THEN "setRequests" ELSE "setMatch"]
               /\ UNCHANGED call
          ELSE Return(s, "ok")
    /\ UNCHANGED <<store, nextMatchId, now, run, budget, mode, scored>>

\* part_001 lines 352-359 and 391-398: the requests become matched, or
\* submitted again
SetRequests(s) ==
    /\ handler[s].pc = "setRequests"
    /\ HandlerMayStep(s)
    /\ LET h == handler[s]
       IN transfer_requests' =
              SetRequestStatus(h.requestIds,
                               IF h.op = "accept" THEN "matched" ELSE "submitted")
    /\ Return(s, "ok")
    /\ UNCHANGED <<transfer_matches, transfer_match_participants, nextMatchId, now, run, budget, mode, scored>>

\* ------------------------------------- submitRequest and withdrawRequest
\* a user posts submit or withdraw for a request
ReceiveForRequest(s) ==
    /\ handler[s].pc = "idle"
    /\ \A t \in Slots : t < s => handler[t].pc # "idle"
    /\ HandlerMayStep(s)
    /\ budget.responses > 0
    /\ \E op \in {"submit", "withdraw"}, id \in RequestIds, u \in Users :
        handler' = [handler EXCEPT ![s] =
            [IdleHandler EXCEPT !.pc = IF op = "submit" THEN "consume" ELSE "participations",
                                !.op = op, !.userId = u, !.requestIds = {id}]]
    /\ budget' = [budget EXCEPT !.responses = @ - 1]
    /\ UNCHANGED <<store, nextMatchId, now, run, call, mode, scored>>

\* transfer-requests.service.ts lines 238-262: a purchase credit is consumed,
\* or the call ends there for want of one
ConsumePurchase(s) ==
    /\ handler[s].pc = "consume"
    /\ HandlerMayStep(s)
    /\ \E credit \in BOOLEAN :
        IF credit
        THEN handler' = [handler EXCEPT ![s].pc = "submit"] /\ UNCHANGED call
        ELSE Return(s, "error")
    /\ UNCHANGED <<store, nextMatchId, now, run, budget, mode, scored>>

\* the rows an update filtered by id, user_id and status touches
OwnRows(ids, u, statuses) ==
    {id \in ids \cap RequestIds : /\ transfer_requests[id].user_id = u
                                 /\ transfer_requests[id].status \in statuses}

\* lines 264-291: the draft becomes submitted and gets its expiry
SubmitUpdate(s) ==
    /\ handler[s].pc = "submit"
    /\ HandlerMayStep(s)
    /\ LET h == handler[s]
           rows == OwnRows(h.requestIds, h.userId, {"draft"})
       IN /\ transfer_requests' =
                [x \in RequestIds |->
                    IF x \in rows
                    THEN [transfer_requests[x] EXCEPT !.status = "submitted",
                                                     !.expires_at = now + RequestTTLDays]
                    ELSE transfer_requests[x]]
          /\ Return(s, IF rows # {} THEN "ok" ELSE "error")
    /\ UNCHANGED <<transfer_matches, transfer_match_participants, nextMatchId, now, run, budget, mode, scored>>

\* lines 297-325: a request in a pending or accepted match is not withdrawn
ReadParticipations(s) ==
    /\ handler[s].pc = "participations"
    /\ HandlerMayStep(s)
    /\ LET h == handler[s]
           activeMatches ==
               {q \in transfer_match_participants :
                   /\ q.transfer_request_id \in h.requestIds
                   /\ q.match_id \in MatchIds
                   /\ transfer_matches[q.match_id].status \in {"pending", "accepted"}}
       IN IF activeMatches # {}
          THEN Return(s, "error")
          ELSE handler' = [handler EXCEPT ![s].pc = "withdraw"] /\ UNCHANGED call
    /\ UNCHANGED <<store, nextMatchId, now, run, budget, mode, scored>>

\* lines 327-344: the submitted request becomes withdrawn
WithdrawUpdate(s) ==
    /\ handler[s].pc = "withdraw"
    /\ HandlerMayStep(s)
    /\ LET h == handler[s]
           rows == OwnRows(h.requestIds, h.userId, {"submitted", "under_review"})
       IN /\ transfer_requests' = SetRequestStatus(rows, "withdrawn")
          /\ Return(s, IF rows # {} THEN "ok" ELSE "error")
    /\ UNCHANGED <<transfer_matches, transfer_match_participants, nextMatchId, now, run, budget, mode, scored>>

\* ----------------------------------------------------------- the scorers
\* lines 107-108: the pairwise scorer applied to requests 1 and 2
ScorePair ==
    /\ ~scored.pair
    /\ scored' = [scored EXCEPT
                     !.pair = TRUE,
                     !.compatibility =
                         calculateCompatibility(transfer_requests[1], transfer_requests[2])]
    /\ UNCHANGED <<store, nextMatchId, now, run, handler, call, budget, mode>>

\* lines 344-346: the geographic part of the three-way scorer applied to
\* requests 1 and 2
ScoreFeasibility ==
    /\ ~scored.geo
    /\ scored' = [scored EXCEPT
                     !.geo = TRUE,
                     !.feasibility =
                         getGeoFeasibilityScore(transfer_requests[1], transfer_requests[2])]
    /\ UNCHANGED <<store, nextMatchId, now, run, handler, call, budget, mode>>

\* ----------------------------------------------------------- behaviours
Next ==
    \/ \E p \in Runners : StartRun(p)
    \/ \E p \in Runners : QueryRequests(p)
    \/ \E p \in Runners : QueryPreferences(p)
    \/ \E p \in Runners : QuerySubjects(p)
    \/ \E p \in Runners : QueryParticipants(p)
    \/ \E p \in Runners : InsertMatch(p)
    \/ \E p \in Runners : InsertParticipants(p)
    \/ \E p \in Runners : DeleteMatch(p)
    \/ \E p \in Runners : SelectUsers(p)
    \/ \E p \in Runners : Notify(p)
    \/ \E p \in Runners : ExpireAfterRun(p)
    \/ \E p \in Runners : RunReturns(p)
    \/ ExpireOldMatches
    \/ Tick
    \/ \E s \in Slots : Receive(s)
    \/ \E s \in Slots : UpdateResponse(s)
    \/ \E s \in Slots : AcceptReadAll(s)
    \/ \E s \in Slots : SetMatch(s)
    \/ \E s \in Slots : ReadIds(s)
    \/ \E s \in Slots : SetRequests(s)

\* every trigger and request served to completion, one at a time
Spec == Init /\ [][Next]_vars

\* the same, from the pool of two requests that prefer each other
InitPair ==
    /\ InitStore({PoolPair}, [runs |-> MaxRuns, responses |-> MaxResponses,
                              faults |-> MaxFaults, sweeps |-> 1, ticks |-> MaxTime])
    /\ mode = "serial"
SpecPair == InitPair /\ [][Next]_vars

\* the same, from a pool with one possible pair or one possible rotation
InitGroup ==
    /\ InitStore({PoolPair, PoolTriple}, [runs |-> 1, responses |-> MaxResponses,
                                          faults |-> 1, sweeps |-> 1, ticks |-> MaxTime])
    /\ mode = "serial"
SpecGroup == InitGroup /\ [][Next]_vars

\* the daily and the on-demand run overlap, interleaving at their store calls
InitOverlap ==
    /\ InitStore({PoolPair}, [runs |-> MaxRuns, responses |-> 1, faults |-> 1,
                              sweeps |-> 1, ticks |-> MaxTime])
    /\ mode = "concurrent"
SpecOverlap == InitOverlap /\ [][Next]_vars

\* accept and reject requests overlap, interleaving at their store calls
InitRespond ==
    /\ InitStore({PoolPair}, [runs |-> 1, responses |-> MaxResponses + 1, faults |-> 1,
                              sweeps |-> 1, ticks |-> 1])
    /\ mode = "concurrent"
SpecRespond == InitRespond /\ [][Next]_vars

\* one rotation of three requests and a response from each of its participants
InitTriple ==
    /\ InitStore({PoolTriple}, [runs |-> 1, responses |-> MaxResponses + 1, faults |-> 1,
                                sweeps |-> 1, ticks |-> MaxTime])
    /\ mode = "serial"
SpecTriple == InitTriple /\ [][Next]_vars

\* a pool with a request that expires on day 4 and a request never submitted
InitStale ==
    /\ InitStore({PoolStale}, [runs |-> MaxRuns, responses |-> MaxResponses, faults |-> 1,
                               sweeps |-> 1, ticks |-> MaxTime])
    /\ mode = "serial"
SpecStale == InitStale /\ [][Next]_vars

\* pools in which a gate of the pair test or of the three-way test decides
InitGates ==
    /\ InitStore({PoolGates, PoolOwner, PoolSubjects},
                 [runs |-> MaxRuns, responses |-> 1, faults |-> 1, sweeps |-> 1, ticks |-> MaxTime])
    /\ mode = "serial"
SpecGates == InitGates /\ [][Next]_vars

\* the pair with one response and repeated calls of expireOldMatches
InitSweep ==
    /\ InitStore({PoolPair}, [runs |-> MaxRuns, responses |-> 1, faults |-> 1,
                              sweeps |-> MaxSweeps, ticks |-> MaxTime])
    /\ mode = "serial"
SpecSweep == InitSweep /\ [][Next]_vars

\* one run over a pool in which a dropped group leaves other candidates
InitDrop ==
    /\ InitStore({PoolChoice, PoolCycle}, [runs |-> 1, responses |-> 1, faults |-> 1,
                                           sweeps |-> 1, ticks |-> MaxTime])
    /\ mode = "serial"
SpecDrop == InitDrop /\ [][Next]_vars

\* one run over a pool that holds a rotation and a pair with a second choice
InitFirstFit ==
    /\ InitStore({PoolMixed, PoolChoice},
                 [runs |-> 1, responses |-> 1, faults |-> MaxFaults,
                  sweeps |-> 1, ticks |-> 1])
    /\ mode = "serial"
SpecFirstFit == InitFirstFit /\ [][Next]_vars

\* a run, a response, and a second run
InitRematch ==
    /\ InitStore({PoolPair, PoolTriple},
                 [runs |-> MaxRuns, responses |-> 1, faults |-> MaxFaults,
                  sweeps |-> 1, ticks |-> 1])
    /\ mode = "serial"
SpecRematch == InitRematch /\ [][Next]_vars

\* one run over a rotation in pool order or against it
InitRotation ==
    /\ InitStore({PoolTriple, PoolReverse},
                 [runs |-> 1, responses |-> 1, faults |-> MaxFaults,
                  sweeps |-> 1, ticks |-> 1])
    /\ mode = "serial"
SpecRotation == InitRotation /\ [][Next]_vars

\* the engine together with the owners' submit and withdraw calls
NextLife ==
    \/ Next
    \/ \E s \in Slots : ReceiveForRequest(s)
    \/ \E s \in Slots : ConsumePurchase(s)
    \/ \E s \in Slots : SubmitUpdate(s)
    \/ \E s \in Slots : ReadParticipations(s)
    \/ \E s \in Slots : WithdrawUpdate(s)
InitLife ==
    /\ InitStore({PoolStale},
                 [runs |-> 1, responses |-> MaxResponses + 1, faults |-> 1,
                  sweeps |-> 1, ticks |-> 1])
    /\ mode = "serial"
SpecLife == InitLife /\ [][NextLife]_vars

\* the scorers applied to generated pairs of requests
NextScore == ScorePair \/ ScoreFeasibility
InitScore ==
    /\ InitStore(ScorePairs, [runs |-> 0, responses |-> 0, faults |-> 0, sweeps |-> 0,
                              ticks |-> 0])
    /\ mode = "serial"
SpecScore == InitScore /\ [][NextScore]_vars

\* ---------------------------------------------------------------- claims
RequestsOf(m) == {q.transfer_request_id : q \in ParticipantsOf(m)}
MatchesOf(r, statuses) ==
    {m \in MatchIds : transfer_matches[m].status \in statuses /\ r \in RequestsOf(m)}

\* C1: within one execution of runMatchingAlgorithm no request id is in more
\* than one of the groups the execution created a match for.
C1_GroupsDisjoint ==
    \A p \in Runners : \A g1, g2 \in run[p].groups :
        g1 # g2 => Range(g1) \cap Range(g2) = {}

\* C2: with operations run to completion one after another, every request is
\* a participant of at most one match that is pending or accepted.
C2_OneActiveMatch ==
    AllQuiet => \A r \in RequestIds :
                    Cardinality(MatchesOf(r, {"pending", "accepted"})) <= 1

\* C3: when the daily and the on-demand run overlap, once both have returned
\* no request is a participant of two pending matches.
C3_NoDoubleAllocation ==
    (\A p \in Runners : Quiet(p)) =>
        \A r \in RequestIds : Cardinality(MatchesOf(r, {"pending"})) <= 1

\* C4: with accept and reject calls interleaved, whenever no call is in
\* progress an accepted match has every participant's response accepted.
C4_AcceptedMeansAllAccepted ==
    (\A s \in Slots : handler[s].pc = "idle") =>
        \A m \in MatchIds : transfer_matches[m].status = "accepted" =>
            \A q \in ParticipantsOf(m) : q.response_status = "accepted"

\* C5: a match that is accepted, rejected or expired keeps that status in
\* every later step.
C5_StatusFinal ==
    [][\A m \in MatchIds :
          transfer_matches[m].status \in {"accepted", "rejected", "expired"} =>
              /\ m \in DOMAIN transfer_matches'
              /\ transfer_matches'[m].status = transfer_matches[m].status]_vars

\* C6: accept or reject by a participant of a match that is not pending fails
\* with an error and changes no participant, match or request row.
C6_NotPendingRejected ==
    [][\A s \in Slots :
          (/\ handler[s].pc = "update"
           /\ handler'[s] # handler[s]
           /\ RowsOf(handler[s].matchId, handler[s].userId) # {}
           /\ handler[s].statusBefore # "pending")
          => (/\ handler'[s].pc = "idle"
              /\ call'.result = "error"
              /\ UNCHANGED store)]_vars

\* C7: accept or reject by a user who is not a participant of the match fails
\* with an error and changes no participant, match or request row.
C7_NonParticipantRejected ==
    [][\A s \in Slots :
          (/\ handler[s].pc = "update"
           /\ handler'[s] # handler[s]
           /\ RowsOf(handler[s].matchId, handler[s].userId) = {})
          => (/\ handler'[s].pc = "idle"
              /\ call'.result = "error"
              /\ UNCHANGED store)]_vars

C7_Witness ==
    /\ call.result = "error"
    /\ call.matchId \in MatchIds
    /\ ParticipantsOf(call.matchId) # {}
    /\ RowsOf(call.matchId, call.userId) = {}

\* C8: when the participant insert fails after the match row went in, then at
\* the factory's return the match row is gone, the group is not counted and
\* no request id was added to processedRequestIds.
C8_RollbackExact ==
    [][\A p \in Runners :
          (/\ run'[p] # run[p]
           /\ \/ run[p].pc = "deleteMatch"
              \/ /\ run[p].pc = "insertParticipants"
                 /\ run'[p].pc \notin {"selectUsers", "deleteMatch"})
          => (/\ run[p].match \notin DOMAIN transfer_matches'
              /\ run'[p].matchesCreated = run[p].matchesCreated
              /\ run'[p].processedRequestIds = run[p].processedRequestIds)]_vars

\* C9: the matchesCreated a run returns is the number of match rows the run
\* inserted that exist with their participants when it returns.
C9_CountIsAccurate ==
    \A p \in Runners :
        run[p].pc \in {"done", "expire"} =>
            run[p].result.matchesCreated =
                Cardinality({m \in run[p].inserted \cap MatchIds : ParticipantsOf(m) # {}})

C12_CreatedWhole ==
    \A m \in MatchIds :
        LET n == IF transfer_matches[m].match_type = "two_way" THEN 2 ELSE 3
        IN /\ Cardinality(ParticipantsOf(m)) = n
           /\ {q.swap_position : q \in ParticipantsOf(m)} = 1..n

\* C13: when its queries return their data, the pool getEligibleRequests
\* builds is exactly the set of requests that are submitted, expire in the
\* future and have no participant row in a pending or accepted match.
C13_PoolExact ==
    [][\A p \in Runners :
          LET exact == {id \in RequestIds :
                           /\ transfer_requests[id].status = "submitted"
                           /\ transfer_requests[id].expires_at > now
                           /\ MatchesOf(id, {"pending", "accepted"}) = {}}
          IN /\ (run[p].pc = "participants" /\ run'[p].existingParticipants = "data")
                    => Range(run'[p].eligibleRequests) = exact
             /\ (run[p].pc = "requests"
                 /\ run'[p].pc \notin {"requests", "failed", "preferences"})
                    => (run'[p].eligibleRequests = << >> /\ exact = {})]_vars

\* a pool holding requests whose only match expired or was rejected, built
\* while another submitted request was left out
C13_Witness ==
    \E p \in Runners :
        /\ run[p].existingParticipants = "data"
        /\ \E id \in Range(run[p].eligibleRequests) :
               MatchesOf(id, {"rejected", "expired"}) # {}
        /\ \E id \in RequestIds \ Range(run[p].eligibleRequests) :
               transfer_requests[id].status = "submitted"

\* C14: a run in which the preferences query, the subjects query or the
\* existing-participants query failed has been aborted with an error and has
\* inserted no match.
C14_LoadFailureAborts ==
    \A p \in Runners :
        (\/ run[p].preferences = "null"
         \/ run[p].requestSubjects = "null"
         \/ run[p].existingParticipants = "null")
        => (run[p].pc = "failed" /\ run[p].inserted = {})

\* the request a match has at a swap position
RequestAt(m, x) ==
    transfer_requests[(CHOOSE q \in ParticipantsOf(m) : q.swap_position = x).transfer_request_id]

Subjects(req) == Range(req.subjects)

\* C15: every two_way match joins two requests of different owners with equal
\* category, equal medium, a common subject and a pairwise total of 50 or more.
C15_TwoWayGates ==
    \A m \in MatchIds :
        (transfer_matches[m].match_type = "two_way" /\ ParticipantsOf(m) # {}) =>
            LET a == RequestAt(m, 1)
                b == RequestAt(m, 2)
            IN /\ a.appointment_category_id = b.appointment_category_id
               /\ a.medium_of_instruction = b.medium_of_instruction
               /\ Subjects(a) \cap Subjects(b) # {}
               /\ a.user_id # b.user_id
               /\ calculateCompatibility(a, b).total >= 50
               /\ transfer_matches[m].compatibility_score >= 50

\* a two_way match created from the pool in which the first pair scanned has
\* one owner
C15_Witness ==
    /\ transfer_requests = PoolOwner
    /\ \E m \in MatchIds :
           /\ transfer_matches[m].match_type = "two_way"
           /\ Cardinality(ParticipantsOf(m)) = 2

\* C16: every circular_three match joins three requests with equal category
\* and medium, a common subject for each of the pairs A-B, B-C and C-A, and a
\* three-way score of 40 or more.
C16_ThreeWayGates ==
    \A m \in MatchIds :
        (transfer_matches[m].match_type = "circular_three" /\ ParticipantsOf(m) # {}) =>
            LET a == RequestAt(m, 1)
                b == RequestAt(m, 2)
                c == RequestAt(m, 3)
            IN /\ Subjects(a) \cap Subjects(b) # {}
               /\ Subjects(b) \cap Subjects(c) # {}
               /\ Subjects(c) \cap Subjects(a) # {}
               /\ a.appointment_category_id = b.appointment_category_id
               /\ b.appointment_category_id = c.appointment_category_id
               /\ a.medium_of_instruction = b.medium_of_instruction
               /\ b.medium_of_instruction = c.medium_of_instruction
               /\ calculateThreeWayCompatibility(a, b, c) >= 40
               /\ transfer_matches[m].compatibility_score >= 40

\* a circular_three match created from the pool whose first rotation has an
\* empty subject intersection and a score above 40
C16_Witness ==
    /\ transfer_requests = PoolSubjects
    /\ calculateThreeWayCompatibility(PoolSubjects[1], PoolSubjects[2], PoolSubjects[3]) > 40
    /\ \E m \in MatchIds :
           /\ transfer_matches[m].match_type = "circular_three"
           /\ Cardinality(ParticipantsOf(m)) = 3

\* C17: the participants of a match have pairwise distinct owners.
C17_DistinctOwners ==
    \A m \in MatchIds : \A q1, q2 \in ParticipantsOf(m) :
        q1 # q2 => q1.user_id # q2.user_id

\* a match with a participant whose owner has another request, one that is
\* not in the match and was in the pool with it
C17_Witness ==
    \E m \in MatchIds : \E q \in ParticipantsOf(m) :
        \E id \in RequestIds \ RequestsOf(m) :
            /\ transfer_requests[id].user_id = q.user_id
            /\ transfer_requests[id].status = "submitted"
            /\ MatchesOf(id, {"pending", "accepted", "rejected", "expired"}) = {}

\* the pending matches whose expiry is in the past
PendingPastExpiry ==
    {m \in MatchIds : transfer_matches[m].status = "pending"
                      /\ transfer_matches[m].expires_at < now}

\* C18: a successful expireOldMatches sets to expired exactly the pending
\* matches past their expiry and returns their number; every other match,
\* every participant row and every transfer request stays as it was.
C18_SweepExact ==
    [][/\ (budget'.sweeps < budget.sweeps /\ call'.result = "ok") =>
             /\ DOMAIN transfer_matches' = MatchIds
             /\ \A m \in MatchIds :
                    transfer_matches'[m] =
                        IF m \in PendingPastExpiry
                        THEN [transfer_matches[m] EXCEPT !.status = "expired"]
                        ELSE transfer_matches[m]
             /\ call'.expiredCount = Cardinality(PendingPastExpiry)
             /\ UNCHANGED <<transfer_requests, transfer_match_participants>>
       /\ \A p \in Runners :
             (run[p].pc = "expire" /\ run'[p].pc = "idle") =>
                 /\ DOMAIN transfer_matches' = MatchIds
                 /\ \/ UNCHANGED transfer_matches
                    \/ \A m \in MatchIds :
                          transfer_matches'[m] =
                              IF m \in PendingPastExpiry
                              THEN [transfer_matches[m] EXCEPT !.status = "expired"]
                              ELSE transfer_matches[m]
                 /\ UNCHANGED <<transfer_requests, transfer_match_participants>>]_vars

\* a sweep that expired a match and left a rejected match past its expiry alone
C18_Witness ==
    /\ call.op = "expire"
    /\ call.result = "ok"
    /\ call.expiredCount >= 1
    /\ call.at = now
    /\ \E m \in MatchIds : transfer_matches[m].status = "expired"
    /\ \E m \in MatchIds : /\ transfer_matches[m].status \in {"accepted", "rejected"}
                            /\ transfer_matches[m].expires_at < now

\* C19: a successful expireOldMatches that follows a successful one, with no
\* time passed and no accept or reject in between, returns 0 and changes no
\* row of the store.
C19_SweepIdempotent ==
    [][(/\ budget'.sweeps < budget.sweeps
        /\ call'.result = "ok"
        /\ call.op = "expire"
        /\ call.result = "ok"
        /\ call.at = now)
       => (call'.expiredCount = 0 /\ UNCHANGED store)]_vars

\* two sweeps after one run and no response: the first expired the match, the
\* second, at the same time, returned 0
C19_Witness ==
    /\ call.op = "expire"
    /\ call.result = "ok"
    /\ call.expiredCount = 0
    /\ call.at = now
    /\ budget.sweeps = MaxSweeps - 2
    /\ budget.runs = MaxRuns - 1
    /\ budget.responses = 1
    /\ budget.faults = 1
    /\ \E m \in MatchIds : transfer_matches[m].status = "expired"

\* C20: whatever the user lookup and the notification insert do, the factory
\* returns with the match and its participants still in the store, the group
\* counted as created and its requests in processedRequestIds.
C20_NotifyNeverFails ==
    [][\A p \in Runners :
          (/\ run[p].pc \in {"selectUsers", "notify"}
           /\ run'[p] # run[p]
           /\ run'[p].pc # "notify")
          => (/\ UNCHANGED store
              /\ run'[p].matchesCreated = run[p].matchesCreated + 1
              /\ Range(Group(run[p])) \subseteq run'[p].processedRequestIds)]_vars

\* the lowest member of a non-empty set of indexes
Lowest(S) == CHOOSE x \in S : \A y \in S : x <= y

\* C21: when the factory gives a group up after a failed insert, the run is
\* not aborted and counts nothing for the group; if a later partner in the
\* enumeration qualifies for the same requests, that candidate is tried next.
C21_DroppedGroupRunGoesOn ==
    [][\A p \in Runners :
          LET r == run[p]
              n == Len(r.eligibleRequests)
              free(x) == r.eligibleRequests[x] \notin r.processedRequestIds
              laterJ == {j \in (r.j + 1)..n :
                            free(j) /\ IsPairCandidate(At(r, r.i), At(r, j))}
              laterK == {k \in (r.k + 1)..n :
                            free(k) /\ IsCycleCandidate(At(r, r.i), At(r, r.j), At(r, k))}
          IN (/\ r.pc \in {"insertMatch", "insertParticipants", "deleteMatch"}
              /\ run'[p] # r
              /\ run'[p].pc \notin {"insertParticipants", "deleteMatch", "selectUsers"})
             => /\ run'[p].pc \in {"insertMatch", "done", "expire"}
                /\ run'[p].matchesCreated = r.matchesCreated
                /\ run'[p].processedRequestIds = r.processedRequestIds
                /\ (r.phase = 2 /\ laterJ # {}) =>
                       /\ run'[p].pc = "insertMatch" /\ run'[p].phase = 2
                       /\ run'[p].i = r.i /\ run'[p].j = Lowest(laterJ)
                /\ (r.phase = 3 /\ laterK # {}) =>
                       /\ run'[p].pc = "insertMatch" /\ run'[p].phase = 3
                       /\ run'[p].i = r.i /\ run'[p].j = r.j
                       /\ run'[p].k = Lowest(laterK)]_vars

\* request 1 matched with request 3 in the run that dropped the pair (1, 2)
C21_Witness ==
    /\ transfer_requests = PoolChoice
    /\ budget.faults = 0
    /\ \E p \in Runners : <<1, 3>> \in run[p].groups
    /\ MatchesOf(2, {"pending", "accepted", "rejected", "expired"}) = {}
    /\ \E m \in MatchIds : RequestsOf(m) = {1, 3}

\* C22: the requestsProcessed a run returns is twice the number of pairs plus
\* three times the number of triples it created a match for, and its
\* matchesCreated is the number of those groups.
C22_ProcessedByGroupSize ==
    \A p \in Runners :
        run[p].pc \in {"done", "expire"} =>
            /\ run[p].result.matchesCreated = Cardinality(run[p].groups)
            /\ run[p].result.requestsProcessed =
                   2 * Cardinality({g \in run[p].groups : Len(g) = 2})
                   + 3 * Cardinality({g \in run[p].groups : Len(g) = 3})

\* requests 1 and 2 prefer each other's school first, have one urgency, one
\* district and a common subject
FirstChoicePair ==
    LET a == transfer_requests[1]
        b == transfer_requests[2]
    IN /\ Wants(a, b.current_school_id) /\ RankOf(a, b.current_school_id) = 1
       /\ Wants(b, a.current_school_id) /\ RankOf(b, a.current_school_id) = 1
       /\ a.urgency_level = b.urgency_level
       /\ a.district # 0 /\ a.district = b.district
       /\ Subjects(a) \cap Subjects(b) # {}

\* C23 as stated: for such a pair calculateCompatibility gives mutualSchools
\* 60, geographicCompatibility 20, subjects above 0, urgency 5 and a total of
\* 85 or more, whatever the sizes of the subject lists.
C23_FirstChoiceScore ==
    (scored.pair /\ FirstChoicePair) =>
        /\ scored.compatibility.mutualSchools = 60
        /\ scored.compatibility.geographicCompatibility = 20
        /\ scored.compatibility.subjects > 0
        /\ scored.compatibility.urgency = 5
        /\ scored.compatibility.total >= 85

\* C23 amended: the same, except that subjects is above 0 only when the
\* common subjects are at least one thirtieth of the longer list, and is 0
\* otherwise.
C23_FirstChoiceScoreAmended ==
    (scored.pair /\ FirstChoicePair) =>
        LET a == transfer_requests[1]
            b == transfer_requests[2]
            common == Cardinality(Subjects(a) \cap Subjects(b))
            longer == Max(Len(a.subjects), Len(b.subjects))
        IN /\ scored.compatibility.mutualSchools = 60
           /\ scored.compatibility.geographicCompatibility = 20
           /\ scored.compatibility.subjects >= 0
           /\ (scored.compatibility.subjects > 0) <=> (30 * common >= longer)
           /\ scored.compatibility.urgency = 5
           /\ scored.compatibility.total >= 85

\* a scored first-choice pair with one common subject in a list of 31
C23_Witness ==
    /\ scored.pair
    /\ FirstChoicePair
    /\ Len(transfer_requests[1].subjects) > 30
    /\ scored.compatibility.subjects = 0
    /\ scored.compatibility.total = 85

\* C24: for preference ranks from 1 up to the length of the list,
\* calculateCompatibility returns a mutual-preference component in 0..60 and
\* a total in 0..100.
C24_ScoreRanges ==
    scored.pair =>
        /\ scored.compatibility.mutualSchools \in 0..60
        /\ scored.compatibility.total \in 0..100

\* C27: for every ordered pair of requests getGeoFeasibilityScore gives what
\* calculateGeographicCompatibility gives.
C27_SameGeoTable ==
    (scored.pair /\ scored.geo) =>
        scored.feasibility = scored.compatibility.geographicCompatibility

\* each of the two requests has the other's current school in its list
MutualPreference(a, b) ==
    /\ Wants(transfer_requests[a], transfer_requests[b].current_school_id)
    /\ Wants(transfer_requests[b], transfer_requests[a].current_school_id)

\* C29: the two requests of every two_way match prefer each other's current
\* school, and two requests of which one does not prefer the other's school
\* score 0 on the mutual component and at most 40 in total.
C29_TwoWayIsMutual ==
    /\ \A m \in MatchIds :
          transfer_matches[m].match_type = "two_way" =>
              \A a, b \in RequestsOf(m) : a # b => MutualPreference(a, b)
    /\ \A a, b \in RequestIds :
          (a # b /\ ~MutualPreference(a, b)) =>
              LET c == calculateCompatibility(transfer_requests[a], transfer_requests[b])
              IN c.mutualSchools = 0 /\ c.total <= 40 /\ c.total < TwoWayThreshold

\* a run with its data loaded has ended, a two_way match exists, and two
\* requests of different owners that pass the gates, one preferring the
\* other's school, were in its pool and are left unallocated
C29_Witness ==
    \E p \in Runners : \E x, y \in DOMAIN run[p].eligibleRequests :
        LET r == run[p]
            a == r.eligibleRequests[x]
            b == r.eligibleRequests[y]
        IN /\ r.pc \in {"done", "expire"}
           /\ r.preferences = "data" /\ r.requestSubjects = "data"
           /\ x < y
           /\ {a, b} \cap r.processedRequestIds = {}
           /\ transfer_requests[a].user_id # transfer_requests[b].user_id
           /\ TwoWayValidation(transfer_requests[a], transfer_requests[b])
           /\ Wants(transfer_requests[b], transfer_requests[a].current_school_id)
           /\ ~Wants(transfer_requests[a], transfer_requests[b].current_school_id)
           /\ \E m \in MatchIds : transfer_matches[m].match_type = "two_way"

\* no persistence call has failed since the start
FaultFree == budget.faults = MaxFaults

Unallocated(r, x) == r.eligibleRequests[x] \notin r.processedRequestIds
Qualifies(r, x, y) == IsPairCandidate(At(r, x), At(r, y))

\* C28: while no persistence call has failed, every circular_three match of a
\* run is inserted before every two_way match of that run; the pair being
\* created is an unallocated i with the lowest unallocated j > i that
\* qualifies; every earlier pair of the run started at a lower index than i;
\* and every unallocated index the scan has left behind has no unallocated
\* qualifying partner after it.
C28_FirstFit ==
    FaultFree =>
        \A p \in Runners :
            LET r == run[p]
                n == Len(r.eligibleRequests)
            IN /\ \A m1, m2 \in r.inserted \cap MatchIds :
                      (/\ transfer_matches[m1].match_type = "circular_three"
                       /\ transfer_matches[m2].match_type = "two_way") => m1 < m2
               /\ (r.phase = 3) =>
                      \A m \in r.inserted \cap MatchIds :
                          transfer_matches[m].match_type = "circular_three"
               /\ (r.phase = 2) =>
                      /\ r.i < r.j
                      /\ Unallocated(r, r.i) /\ Unallocated(r, r.j)
                      /\ Qualifies(r, r.i, r.j)
                      /\ \A y \in (r.i + 1)..(r.j - 1) :
                            ~(Unallocated(r, y) /\ Qualifies(r, r.i, y))
                      /\ \A g \in r.groups :
                            Len(g) = 2 => g[1] < r.eligibleRequests[r.i]
                      /\ \A x \in 1..(r.i - 1) : \A y \in (x + 1)..n :
                            ~(Unallocated(r, x) /\ Unallocated(r, y) /\ Qualifies(r, x, y))
               /\ (r.pc \in {"done", "expire"}) =>
                      \A x \in 1..n : \A y \in (x + 1)..n :
                          ~(Unallocated(r, x) /\ Unallocated(r, y) /\ Qualifies(r, x, y))

\* a run without a failure has ended having created a circular_three match and
\* then a two_way match whose first request also qualifies with a later
\* request that is left unallocated
C28_Witness ==
    /\ FaultFree
    /\ \E p \in Runners :
          LET r == run[p]
          IN /\ r.pc \in {"done", "expire"}
             /\ \E m \in r.inserted \cap MatchIds :
                   transfer_matches[m].match_type = "circular_three"
             /\ \E x, y, z \in DOMAIN r.eligibleRequests :
                   /\ x < y /\ y < z
                   /\ <<r.eligibleRequests[x], r.eligibleRequests[y]>> \in r.groups
                   /\ Unallocated(r, z)
                   /\ Qualifies(r, x, z)

\* C30: while no persistence call has failed, a run that has loaded its pool
\* holds in it every request of a rejected match that is submitted, unexpired
\* and in no active match but those this run inserted; and when the run ends,
\* every rejected match whose requests are all such has a pending match of
\* this run over the same requests.
C30_RejectedGroupRematched ==
    FaultFree =>
        \A p \in Runners : \A m \in MatchIds :
            LET r == run[p]
                free == {id \in RequestsOf(m) :
                            /\ transfer_requests[id].status = "submitted"
                            /\ transfer_requests[id].expires_at > now
                            /\ MatchesOf(id, {"pending", "accepted"}) \subseteq r.inserted}
            IN (/\ transfer_matches[m].status = "rejected"
                /\ r.existingParticipants = "data") =>
                   /\ free \subseteq Range(r.eligibleRequests)
                   /\ (r.pc \in {"done", "expire"} /\ free = RequestsOf(m)) =>
                          \E m2 \in r.inserted \cap MatchIds :
                              /\ m2 > m
                              /\ transfer_matches[m2].status = "pending"
                              /\ transfer_matches[m2].match_type = transfer_matches[m].match_type
                              /\ RequestsOf(m2) = RequestsOf(m)

\* a run without a failure has ended with a pending match over the requests
\* of a match rejected before it
C30_Witness ==
    /\ FaultFree
    /\ \E p \in Runners : \E m \in MatchIds : \E m2 \in run[p].inserted \cap MatchIds :
          /\ run[p].pc \in {"done", "expire"}
          /\ transfer_matches[m].status = "rejected"
          /\ RequestsOf(m) # {}
          /\ m2 > m
          /\ transfer_matches[m2].status = "pending"
          /\ RequestsOf(m2) = RequestsOf(m)

\* C26: when a run in which no persistence call failed has ended, no three
\* unallocated requests of its pool, taken in any order, pass the gates and
\* the threshold of the three-way search.
C26_EitherRotationFound ==
    FaultFree =>
        \A p \in Runners :
            LET r == run[p]
            IN (r.pc \in {"done", "expire"} /\ r.existingParticipants = "data") =>
                   \A x, y, z \in DOMAIN r.eligibleRequests :
                       ~(/\ Unallocated(r, x) /\ Unallocated(r, y) /\ Unallocated(r, z)
                         /\ IsCycleCandidate(At(r, x), At(r, y), At(r, z)))

\* C25: no step takes a withdrawn request to submitted or matched, and a
\* request that becomes matched was submitted.
C25_Lifecycle ==
    [][\A id \in RequestIds :
          LET before == transfer_requests[id].status
              after == transfer_requests'[id].status
          IN /\ (before = "withdrawn") => after \notin {"submitted", "matched"}
             /\ (after = "matched" /\ before # "matched") => before = "submitted"]_vars

====
